---- MODULE Spec2Model ----
(***************************************************************************)
(* lume-epics: the Server (supervisor and dispatcher thread) of            *)
(* src/lume_epics/epics_server.py and the pvAccess adapter process of      *)
(* src/lume_epics/epics_pva_server.py, and the client-side Controller of   *)
(* src/lume_epics/client/controller.py.                                    *)
(*                                                                         *)
(* Spec     the system as Server.__init__ wires it: the dispatcher thread  *)
(*          run_comm_thread, the adapter of each protocol the supervisor   *)
(*          starts, the client writes and the supervisor's stop().  The    *)
(*          Channel Access adapter (epics_ca_server.py) is not among the   *)
(*          sources; its actions (CA...) follow the adapter of spec.md     *)
(*          section 4.2.                                                   *)
(* SpecPVA  the PVAServer process alone, from construction, against the    *)
(*          party that holds the other ends of its two queues and of the   *)
(*          running indicator (Env... actions).                            *)
(* FairSpecPVA  SpecPVA with the process and the queue holder scheduled.   *)
(* SpecController  a Controller of either protocol reading a hosted scalar *)
(*          PV and a hosted image PV.                                      *)
(* SpecMonitor  Spec with the monitor loop of Server.start(monitor=True),  *)
(*          which stops the server once an adapter has set its exit event, *)
(*          the threads and processes scheduled.                           *)
(***************************************************************************)
EXTENDS Integers, Sequences, FiniteSets, TLC

\* ------------------------------------------------------------- bounds
\* client writes carry a value in 0 .. MaxValue
MaxValue == 1
\* number of client writes in one behaviour
MaxWrites == 2
\* batches the inbound queue holds in the model (in_queue.put blocks beyond it)
MaxInQueue == 2
\* capacity of an outbound queue (multiprocessing.Queue: SEM_VALUE_MAX slots)
OutQueueCap == 1
\* a geometry attribute of the hosted image is one of 0, 5 .. 5 * MaxGeometry
MaxGeometry == 2

\* ---------------------------------------------------------- constants
\* Variable.value before any value has been assigned
None == -1
\* the default of every input variable
Default == 0

InputVars == {"x1", "x2"}
OutputVars == {"y", "z"}
Variables == InputVars \cup OutputVars
\* the pva descriptor with a "fields" list, and the list: the model outputs
Parent == "s"
Fields == << "y", "z" >>
FieldSet == { Fields[i] : i \in DOMAIN Fields }
Descriptors == Variables \cup {Parent}
ProtocolNames == {"ca", "pva"}
Values == 0 .. MaxValue

\* a dictionary with no entry
EmptyDict == [v \in {} |-> None]

VARIABLES
    epics_config,       \* protocol -> names of the variables with a PV descriptor
    in_queue,           \* the inbound queue (adapters -> dispatcher)
    out_queues,         \* protocol -> outbound queue (dispatcher -> adapter)
    running_indicator,  \* the shared running flag
    exit_event,         \* Server.exit_event
    sup_pc,             \* the supervisor: "started", "joining" (the dispatcher),
                        \* "joining_adapter", "stopped"
    input_variables,    \* the dispatcher's store: input variable -> value
    inputs_initialized, \* the dispatcher's readiness flag (0 or 1)
    comm_pc,            \* where the dispatcher thread is
    comm_error,         \* the exception that ended the dispatcher thread
    data,               \* the batch the dispatcher dequeued last
    predicted_output,   \* what evaluate returned last
    bcast,              \* protocols the output broadcast still has to serve
    ca_pc,              \* the Channel Access adapter
    ca_shutdown,        \* its shutdown event
    ca_cached_values,   \* its cache of writes
    ca_output,          \* the value its output PV shows
    pva_pc,             \* the PVAServer process
    shutdown_event,     \* PVAServer.shutdown_event
    pva_exit_event,     \* PVAServer.exit_event
    serve,              \* pva descriptor flag "serve": variable -> BOOLEAN
    pva_order,          \* the order of the pva descriptors (epics_config.items())
    pva_input_variables,\* PVAServer._input_variables: input -> value
    pva_cached_values,  \* PVAServer._cached_values
    providers,          \* PVAServer._providers: served variable -> value shown
    external,           \* variables whose provider is None (externally hosted)
    monitors,           \* PVAServer._monitors: variables with a subscription
    handler_pc,         \* the thread that runs PVAccessInputHandler.put
    monitor_pc,         \* the thread that runs _monitor_callback
    context_open,       \* the client Context is open
    pva_server,         \* "none", "started" or "stopped": the P4PServer
    is_constant,        \* the input variables whose is_constant is True
    structures,         \* PVAServer._structures[Parent]: field -> value
    posts,              \* history: the posts of the last update_pvs on the
                        \* PV of Parent: what it showed before and after
    remote_puts,        \* history: externally hosted PVs written by the last
                        \* update_pvs
    op,                 \* the put operation the handler received last
    pva_error,          \* the exception that ended the PVAServer process
    protocol,           \* Controller.protocol
    context,            \* Controller.context: "none", "open" or "closed"
    pv_registry,        \* Controller.pv_registry: pvname -> value
    attrib,             \* the geometry attributes of the hosted image
    scalar_pv,          \* the value of the hosted scalar PV
    returned,           \* the last call on the Controller and its outcome
    observed,           \* history: inputs seen in a batch the dispatcher applied
    last_written,       \* history: input -> value of the last client write
    writes,             \* history: number of client writes so far
    in_flight,          \* history: evaluate calls that have not returned
    cycle               \* history: what the current dispatch cycle has done

vars == << epics_config, in_queue, out_queues, running_indicator, exit_event,
           sup_pc, input_variables, inputs_initialized, comm_pc, comm_error,
           data, predicted_output, bcast, ca_pc, ca_shutdown, ca_cached_values,
           ca_output, pva_pc, shutdown_event, pva_exit_event, serve, pva_order,
           pva_input_variables, pva_cached_values, providers, external,
           monitors, handler_pc, monitor_pc, context_open, pva_server,
           is_constant, structures, posts, remote_puts, op, pva_error,
           protocol, context, pv_registry, attrib, scalar_pv, returned,
           observed, last_written, writes, in_flight, cycle >>

comm_vars == << input_variables, inputs_initialized, comm_pc, comm_error, data,
                predicted_output, bcast >>
ca_vars == << ca_pc, ca_shutdown, ca_cached_values, ca_output >>
pva_more == << is_constant, structures, posts, remote_puts, op, pva_error >>
pva_state == << serve, pva_order, pva_input_variables, pva_cached_values,
                providers, external, monitors, handler_pc, monitor_pc,
                context_open, pva_server, pva_more >>
pva_vars == << pva_pc, shutdown_event, pva_exit_event, pva_state >>
shared_vars == << epics_config, in_queue, out_queues, running_indicator,
                  exit_event, sup_pc >>
hist_vars == << observed, last_written, writes, in_flight, cycle >>
ctl_vars == << protocol, context, pv_registry, attrib, scalar_pv, returned >>

\* ------------------------------------------------- Server.__init__
\* self._protocols: "ca" when the ca table has descriptors, else "pva" when
\* the pva table has some (the second test is an elif).
Protocols(config) ==
    IF config["ca"] # {} THEN << "ca" >>
    ELSE IF config["pva"] # {} THEN << "pva" >>
    ELSE << >>

ProtocolSet(config) == { Protocols(config)[i] : i \in 1 .. Len(Protocols(config)) }

\* ca_input_vars / pva_input_vars: the model inputs with a descriptor
RegisteredInputs(p) == epics_config[p] \cap InputVars

NoData == [protocol |-> "none", keys |-> {}, vals |-> EmptyDict,
           input_variables |-> {}]
NoCycle == [evaluated |-> FALSE, enqueued |-> {}, full |-> FALSE]

\* a put operation: its state, the input PV it is on and the value it carries
NoOp == [st |-> "none", pv |-> "none", val |-> None]
PutOp(st, v, val) == [st |-> st, pv |-> v, val |-> val]

\* the outcome of a call on the Controller: what it returned or raised
NoCall == [call |-> "none", pvname |-> "none", error |-> "none", value |-> None]
Return(call, pvname, value) ==
    [call |-> call, pvname |-> pvname, error |-> "none", value |-> value]
Raise(call, pvname, error) ==
    [call |-> call, pvname |-> pvname, error |-> error, value |-> None]

\* no Controller has been created
NoController ==
    /\ protocol = "none"
    /\ context = "none"
    /\ pv_registry = EmptyDict
    /\ attrib = [x_min |-> 0, x_max |-> 0, y_min |-> 0, y_max |-> 0]
    /\ scalar_pv = Default
    /\ returned = NoCall

\* the configurations: a protocol with descriptors has one for the output
Configs == { c \in [ProtocolNames -> SUBSET Variables] :
                /\ \E p \in ProtocolNames : c[p] # {}
                /\ \A p \in ProtocolNames : c[p] # {} => OutputVars \subseteq c[p] }

\* the descriptors in a fixed order
DescriptorOrder(config, p) ==
    SelectSeq(<< "x1", "x2", "y", "z", "s" >>, LAMBDA v : v \in config[p])

\* the state the constructors leave: Server.__init__, PVAServer.__init__
Constructed ==
    /\ in_queue = << >>
    /\ out_queues = [p \in ProtocolSet(epics_config) |-> << >>]
    /\ running_indicator = FALSE
    /\ exit_event = FALSE
    /\ sup_pc = "started"
    /\ input_variables = [v \in InputVars |-> None]
    /\ inputs_initialized = 0
    /\ comm_pc = "loop"
    /\ comm_error = "none"
    /\ data = NoData
    /\ predicted_output = None
    /\ bcast = << >>
    /\ ca_pc = IF "ca" \in ProtocolSet(epics_config) THEN "setup" ELSE "absent"
    /\ ca_shutdown = FALSE
    /\ ca_cached_values = EmptyDict
    /\ ca_output = None
    /\ pva_pc = IF "pva" \in ProtocolSet(epics_config) THEN "setup" ELSE "absent"
    /\ shutdown_event = FALSE
    /\ pva_exit_event = FALSE
    /\ pva_input_variables = [v \in RegisteredInputs("pva") |-> None]
    /\ pva_cached_values = EmptyDict
    /\ providers = EmptyDict
    /\ external = {}
    /\ monitors = {}
    /\ handler_pc = "idle"
    /\ monitor_pc = "idle"
    /\ context_open = FALSE
    /\ pva_server = "none"
    /\ structures = EmptyDict
    /\ posts = << >>
    /\ remote_puts = {}
    /\ op = NoOp
    /\ pva_error = "none"
    /\ observed = {}
    /\ last_written = [v \in InputVars |-> None]
    /\ writes = 0
    /\ in_flight = 0
    /\ cycle = NoCycle

\* the Server of any configuration whose PVs are all served locally
Init ==
    /\ epics_config \in Configs
    /\ serve = [v \in Descriptors |-> TRUE]
    /\ pva_order = DescriptorOrder(epics_config, "pva")
    /\ is_constant = {}
    /\ Constructed
    /\ NoController

\* ------------------------------------------- Server.run_comm_thread
\* the external model's evaluate: one output computed from the inputs
Evaluate(store) == 2 * store["x1"] + store["x2"]

OutputMessage(out) == [kind |-> "output_variables",
                       vals |-> [v \in OutputVars |-> out]]

\* the protocols the input mirror serves: every outbound queue but the sender's
MirrorTargets(d) == { p \in DOMAIN out_queues : p # d.protocol }

\* data["input_variables"] is read once per entry of data["pvs"]
MirrorRaises(d) ==
    /\ MirrorTargets(d) # {}
    /\ DOMAIN d.vals # {}
    /\ "input_variables" \notin d.keys

MirrorMessage(d, store) ==
    [kind |-> "input_variables",
     vals |-> [v \in (DOMAIN d.vals) \cap d.input_variables |-> store[v]]]

\* the store after the entries of a batch have been assigned
ApplyBatch(store, d) ==
    [v \in InputVars |-> IF v \in DOMAIN d.vals THEN d.vals[v] ELSE store[v]]

\* inputs_initialized after a batch: set once no input value is None
InputsInitialized_Omit(prev, store, d) ==
    IF \A v \in InputVars : v \in DOMAIN d.vals /\ store[v] # None THEN 1 ELSE 0

InputsInitialized_Any(prev, store, d) ==
    IF \E v \in InputVars : store[v] # None THEN 1 ELSE prev

InputsInitialized(prev, store, d) ==
    IF \A v \in InputVars : store[v] # None THEN 1 ELSE prev

\* line 207: the test that ends the loop
LoopExits_WhenDrained == exit_event /\ in_queue = << >>

LoopExits == exit_event

\* the top of the loop: while not self.exit_event.is_set()
CommLoop ==
    /\ comm_pc = "loop"
    /\ comm_pc' = IF LoopExits THEN "stopped" ELSE "get"
    /\ UNCHANGED ctl_vars
    /\ UNCHANGED << epics_config, in_queue, out_queues, running_indicator,
                    exit_event, sup_pc, input_variables, inputs_initialized,
                    comm_error, data, predicted_output, bcast >>
    /\ UNCHANGED << ca_vars, pva_vars, hist_vars >>

\* the dispatcher reads the inbound queue only from in_queue.get of its loop
CommCanGet_Overlap == comm_pc \in {"get", "evaluate"}

CommCanGet == comm_pc = "get"

\* data = in_queue.get(timeout=0.1); running_indicator.value = True
CommGet ==
    /\ CommCanGet
    /\ in_queue # << >>
    /\ data' = Head(in_queue)
    /\ in_queue' = Tail(in_queue)
    /\ running_indicator' = TRUE
    /\ comm_pc' = "apply"
    /\ cycle' = NoCycle
    /\ UNCHANGED ctl_vars
    /\ UNCHANGED << epics_config, out_queues, exit_event, sup_pc,
                    input_variables, inputs_initialized, comm_error,
                    predicted_output, bcast >>
    /\ UNCHANGED << ca_vars, pva_vars, observed, last_written, writes, in_flight >>

\* the get timed out: except Empty: continue
CommEmpty ==
    /\ comm_pc = "get"
    /\ in_queue = << >>
    /\ comm_pc' = "loop"
    /\ UNCHANGED ctl_vars
    /\ UNCHANGED << epics_config, in_queue, out_queues, running_indicator,
                    exit_event, sup_pc, input_variables, inputs_initialized,
                    comm_error, data, predicted_output, bcast >>
    /\ UNCHANGED << ca_vars, pva_vars, hist_vars >>

\* lines 214-242: assign the entries of data["pvs"], mirror them to the other
\* protocols, test readiness and, when ready, call evaluate.  A missing key
\* raises KeyError, which no except clause of the loop catches.
CommApply ==
    /\ comm_pc = "apply"
    /\ IF "pvs" \notin data.keys
       THEN /\ comm_pc' = "crashed"
            /\ comm_error' = "KeyError"
            /\ UNCHANGED << input_variables, inputs_initialized, out_queues,
                            observed, in_flight >>
       ELSE LET store == ApplyBatch(input_variables, data)
                ready == InputsInitialized(inputs_initialized, store, data)
            IN  /\ input_variables' = store
                /\ observed' = observed \cup DOMAIN data.vals
                /\ IF MirrorRaises(data)
                   THEN /\ comm_pc' = "crashed"
                        /\ comm_error' = "KeyError"
                        /\ UNCHANGED << inputs_initialized, out_queues, in_flight >>
                   ELSE \* queue.put without a timeout waits for a free slot
                        /\ \A p \in MirrorTargets(data) :
                               Len(out_queues[p]) < OutQueueCap
                        /\ out_queues' =
                               [p \in DOMAIN out_queues |->
                                   IF p \in MirrorTargets(data)
                                   THEN Append(out_queues[p],
                                               MirrorMessage(data, store))
                                   ELSE out_queues[p]]
                        /\ inputs_initialized' = ready
                        /\ comm_pc' = IF ready = 1 THEN "evaluate" ELSE "unmark"
                        /\ in_flight' = IF ready = 1 THEN in_flight + 1 ELSE in_flight
                        /\ UNCHANGED comm_error
    /\ UNCHANGED ctl_vars
    /\ UNCHANGED << epics_config, in_queue, running_indicator, exit_event,
                    sup_pc, data, predicted_output, bcast >>
    /\ UNCHANGED << ca_vars, pva_vars, last_written, writes, cycle >>

\* the output loop is over: line 247 comes next
BroadcastNext(rest) == IF rest = << >> THEN "unmark" ELSE "broadcast"

\* for protocol, queue in out_queues.items(): every protocol, in list order
BroadcastOrder_SkipSender(d) ==
    SelectSeq(Protocols(epics_config), LAMBDA p : p # d.protocol)

BroadcastOrder(d) == Protocols(epics_config)

\* predicted_output = model.evaluate(model_input) returns
CommEvaluate ==
    /\ comm_pc = "evaluate"
    /\ predicted_output' = Evaluate(input_variables)
    /\ bcast' = BroadcastOrder(data)
    /\ comm_pc' = BroadcastNext(BroadcastOrder(data))
    /\ in_flight' = in_flight - 1
    /\ cycle' = [cycle EXCEPT !.evaluated = TRUE]
    /\ UNCHANGED ctl_vars
    /\ UNCHANGED << epics_config, in_queue, out_queues, running_indicator,
                    exit_event, sup_pc, input_variables, inputs_initialized,
                    comm_error, data >>
    /\ UNCHANGED << ca_vars, pva_vars, observed, last_written, writes >>

\* model.evaluate raises: the loop catches Empty and Full only
CommEvaluateRaises ==
    /\ comm_pc = "evaluate"
    /\ comm_pc' = "crashed"
    /\ comm_error' = "EvaluationError"
    /\ in_flight' = in_flight - 1
    /\ UNCHANGED ctl_vars
    /\ UNCHANGED << epics_config, in_queue, out_queues, running_indicator,
                    exit_event, sup_pc, input_variables, inputs_initialized,
                    data, predicted_output, bcast >>
    /\ UNCHANGED << ca_vars, pva_vars, observed, last_written, writes, cycle >>

\* queue.put({"output_variables": predicted_output}, timeout=0.1) finds a slot
CommBroadcast ==
    /\ comm_pc = "broadcast"
    /\ bcast # << >>
    /\ Len(out_queues[Head(bcast)]) < OutQueueCap
    /\ out_queues' = [out_queues EXCEPT
                        ![Head(bcast)] = Append(@, OutputMessage(predicted_output))]
    /\ cycle' = [cycle EXCEPT !.enqueued = @ \cup {Head(bcast)}]
    /\ bcast' = Tail(bcast)
    /\ comm_pc' = BroadcastNext(Tail(bcast))
    /\ UNCHANGED ctl_vars
    /\ UNCHANGED << epics_config, in_queue, running_indicator, exit_event,
                    sup_pc, input_variables, inputs_initialized, comm_error,
                    data, predicted_output >>
    /\ UNCHANGED << ca_vars, pva_vars, observed, last_written, writes, in_flight >>

\* where the thread is after queue.Full was raised by the output put
AfterFull_Uncaught == "crashed"

AfterFull == "loop"

\* the put times out on a full queue: except Full: logger.error(...), and the
\* loop goes on from its top; line 247 is not reached
CommBroadcastFull ==
    /\ comm_pc = "broadcast"
    /\ bcast # << >>
    /\ Len(out_queues[Head(bcast)]) >= OutQueueCap
    /\ comm_pc' = AfterFull
    /\ bcast' = << >>
    /\ cycle' = [cycle EXCEPT !.full = TRUE]
    /\ UNCHANGED ctl_vars
    /\ UNCHANGED << epics_config, in_queue, out_queues, running_indicator,
                    exit_event, sup_pc, input_variables, inputs_initialized,
                    comm_error, data, predicted_output >>
    /\ UNCHANGED << ca_vars, pva_vars, observed, last_written, writes, in_flight >>

\* running_indicator.value = False
CommUnmark ==
    /\ comm_pc = "unmark"
    /\ running_indicator' = FALSE
    /\ comm_pc' = "loop"
    /\ UNCHANGED ctl_vars
    /\ UNCHANGED << epics_config, in_queue, out_queues, exit_event, sup_pc,
                    input_variables, inputs_initialized, comm_error, data,
                    predicted_output, bcast >>
    /\ UNCHANGED << ca_vars, pva_vars, hist_vars >>

\* ------------------------------------ the Channel Access adapter (spec.md 4.2)
\* a dictionary with the entry v -> val merged in
Merge(cache, v, val) ==
    [u \in DOMAIN cache \cup {v} |-> IF u = v THEN val ELSE cache[u]]

\* a batch {protocol, variables: name -> value} as the dispatcher reads it
CABatch(vals) == [protocol |-> "ca", keys |-> {"protocol", "pvs"},
                  vals |-> vals, input_variables |-> {}]

\* startup: the store is seeded with the defaults of the adapter's inputs
CASetup ==
    /\ ca_pc = "setup"
    /\ Len(in_queue) < MaxInQueue
    /\ in_queue' = Append(in_queue,
                          CABatch([v \in RegisteredInputs("ca") |-> Default]))
    /\ ca_pc' = "run"
    /\ UNCHANGED ctl_vars
    /\ UNCHANGED << epics_config, out_queues, running_indicator, exit_event,
                    sup_pc, ca_shutdown, ca_cached_values, ca_output >>
    /\ UNCHANGED << comm_vars, pva_vars, hist_vars >>

\* update_pv: merge the write into the cache; flush the entire cache as one
\* batch and clear it if the running indicator is false, else leave it cached
CAUpdatePv(v, val) ==
    /\ ca_pc = "run"
    /\ writes < MaxWrites
    /\ LET cache == Merge(ca_cached_values, v, val)
       IN  IF running_indicator
           THEN /\ ca_cached_values' = cache
                /\ UNCHANGED in_queue
           ELSE /\ Len(in_queue) < MaxInQueue
                /\ in_queue' = Append(in_queue, CABatch(cache))
                /\ ca_cached_values' = EmptyDict
    /\ last_written' = [last_written EXCEPT ![v] = val]
    /\ writes' = writes + 1
    /\ UNCHANGED ctl_vars
    /\ UNCHANGED << epics_config, out_queues, running_indicator, exit_event,
                    sup_pc, ca_pc, ca_shutdown, ca_output >>
    /\ UNCHANGED << comm_vars, pva_vars, observed, in_flight, cycle >>

\* one iteration of the main loop: poll the outbound queue and republish what
\* was dequeued; then flush the cache if it holds updates and the running
\* indicator is false
CARun ==
    /\ ca_pc = "run"
    /\ ~ca_shutdown
    /\ LET got == out_queues["ca"] # << >>
           flush == ca_cached_values # EmptyDict /\ ~running_indicator
       IN  /\ got \/ flush
           /\ flush => Len(in_queue) < MaxInQueue
           /\ out_queues' = IF got THEN [out_queues EXCEPT !["ca"] = Tail(@)]
                            ELSE out_queues
           /\ ca_output' = IF got /\ Head(out_queues["ca"]).kind = "output_variables"
                           THEN Head(out_queues["ca"]).vals["y"]
                           ELSE ca_output
           /\ in_queue' = IF flush THEN Append(in_queue, CABatch(ca_cached_values))
                          ELSE in_queue
           /\ ca_cached_values' = IF flush THEN EmptyDict ELSE ca_cached_values
    /\ UNCHANGED ctl_vars
    /\ UNCHANGED << epics_config, running_indicator, exit_event, sup_pc, ca_pc,
                    ca_shutdown >>
    /\ UNCHANGED << comm_vars, pva_vars, hist_vars >>

\* shutdown: the flag is seen at the top of the next iteration
CAExit ==
    /\ ca_pc = "run"
    /\ ca_shutdown
    /\ ca_pc' = "stopped"
    /\ UNCHANGED ctl_vars
    /\ UNCHANGED << epics_config, in_queue, out_queues, running_indicator,
                    exit_event, sup_pc, ca_shutdown, ca_cached_values, ca_output >>
    /\ UNCHANGED << comm_vars, pva_vars, hist_vars >>

\* ------------------------------------------------------------ PVAServer
\* what update_pv, _monitor_callback, _initialize_model and run put on the
\* inbound queue: {"protocol": self.protocol, "vars": ...}
PVABatch(vals) == [protocol |-> "pva", keys |-> {"protocol", "vars"},
                   vals |-> vals, input_variables |-> {}]

\* the order of self._input_variables and of the outputs of a message
InputOrder == << "x1", "x2" >>
OutputOrder == << "y", "z" >>

\* the position of a name in a sequence of distinct names
Position(order, v) == CHOOSE i \in DOMAIN order : order[i] = v

\* the inputs of the adapter that have no served PV: their value is fetched
Fetched == { v \in RegisteredInputs("pva") : ~serve[v] }

\* setup_server, lines 171-198: a served input takes its default, the value
\* of an externally hosted one is fetched with the client context;
\* _initialize_model then puts the inputs on the inbound queue
PVAInitializeModel ==
    /\ pva_pc = "setup"
    /\ Len(in_queue) < MaxInQueue
    /\ \E fetched \in [Fetched -> Values] :
           LET inputs == [v \in RegisteredInputs("pva") |->
                             IF serve[v] THEN Default ELSE fetched[v]]
           IN  /\ pva_input_variables' = inputs
               /\ in_queue' = Append(in_queue, PVABatch(inputs))
    /\ context_open' = TRUE
    /\ pva_pc' = "wait_outputs"
    /\ UNCHANGED ctl_vars
    /\ UNCHANGED << epics_config, out_queues, running_indicator, exit_event,
                    sup_pc, shutdown_event, pva_exit_event, serve, pva_order,
                    pva_cached_values, providers, external, monitors,
                    handler_pc, monitor_pc, pva_server, pva_more >>
    /\ UNCHANGED << comm_vars, ca_vars, hist_vars >>

\* where the process is after the ValueError of line 191
AfterConnectFailure_Continue == "wait_outputs"

AfterConnectFailure == "failed"

\* setup_server, lines 185-193: the fetch of input f fails: exit_event is set
\* and the ValueError ends the process; the inputs before f have their value
PVAConnectFails ==
    /\ pva_pc = "setup"
    /\ \E f \in Fetched, fetched \in [Fetched -> Values] :
           pva_input_variables' =
               [v \in RegisteredInputs("pva") |->
                   IF Position(InputOrder, v) >= Position(InputOrder, f)
                   THEN None
                   ELSE IF serve[v] THEN Default ELSE fetched[v]]
    /\ pva_exit_event' = TRUE
    /\ context_open' = TRUE
    /\ pva_pc' = AfterConnectFailure
    /\ pva_error' = "ValueError"
    /\ UNCHANGED ctl_vars
    /\ UNCHANGED << shared_vars, shutdown_event, serve, pva_order,
                    pva_cached_values, providers, external, monitors,
                    handler_pc, monitor_pc, pva_server, is_constant,
                    structures, posts, remote_puts, op >>
    /\ UNCHANGED << comm_vars, ca_vars, hist_vars >>

\* setup_server, lines 226-369: the loop over the descriptors.  `variable` is
\* assigned in the branch of a served descriptor only (for the descriptor with
\* fields: to each field in turn); the branch of an unserved one tests the
\* variable that the last served descriptor before it left.
RECURSIVE SetupScan(_, _, _)
SetupScan(order, variable, acc) ==
    IF order = << >> THEN acc
    ELSE LET v == Head(order)
         IN  IF serve[v]
             THEN SetupScan(Tail(order),
                            IF v = Parent THEN Fields[Len(Fields)] ELSE v,
                            [acc EXCEPT !.served = @ \cup {v}])
             ELSE IF variable = "unbound"
             THEN [acc EXCEPT !.raised = TRUE]
             ELSE IF variable \in RegisteredInputs("pva")
             THEN SetupScan(Tail(order), variable,
                            [acc EXCEPT !.monitors = @ \cup {v}])
             ELSE SetupScan(Tail(order), variable,
                            [acc EXCEPT !.external = @ \cup {v}])

SetupResult ==
    SetupScan(pva_order, "unbound",
              [served |-> {}, monitors |-> {}, external |-> {}, raised |-> FALSE])

\* the initial value of the PV of a served variable, or of a field
InitialValue(v, msg) ==
    IF v \in DOMAIN pva_input_variables THEN pva_input_variables[v]
    ELSE IF msg.kind = "output_variables" /\ v \in DOMAIN msg.vals
    THEN msg.vals[v]
    ELSE None

\* setup_server, lines 200-409: the first message of the outbound queue ends
\* the wait; the PVs, the structure, handlers and monitors are created and the
\* server starts
PVAStartServer ==
    /\ pva_pc = "wait_outputs"
    /\ ~shutdown_event
    /\ out_queues["pva"] # << >>
    /\ ~SetupResult.raised
    /\ out_queues' = [out_queues EXCEPT !["pva"] = Tail(@)]
    /\ providers' = [v \in SetupResult.served \ {Parent} |->
                        InitialValue(v, Head(out_queues["pva"]))]
    /\ structures' = IF Parent \in SetupResult.served
                     THEN [f \in FieldSet |->
                              InitialValue(f, Head(out_queues["pva"]))]
                     ELSE EmptyDict
    /\ external' = SetupResult.external
    /\ monitors' = SetupResult.monitors
    /\ pva_server' = "started"
    /\ pva_pc' = "run"
    /\ UNCHANGED ctl_vars
    /\ UNCHANGED << epics_config, in_queue, running_indicator, exit_event,
                    sup_pc, shutdown_event, pva_exit_event, serve, pva_order,
                    pva_input_variables, pva_cached_values, handler_pc,
                    monitor_pc, context_open, is_constant, posts,
                    remote_puts, op, pva_error >>
    /\ UNCHANGED << comm_vars, ca_vars, hist_vars >>

\* setup_server, line 362: `variable` is not bound when the first descriptor
\* is not served: the exception ends the process
PVASetupRaises ==
    /\ pva_pc = "wait_outputs"
    /\ ~shutdown_event
    /\ out_queues["pva"] # << >>
    /\ SetupResult.raised
    /\ out_queues' = [out_queues EXCEPT !["pva"] = Tail(@)]
    /\ pva_pc' = "failed"
    /\ pva_error' = "UnboundLocalError"
    /\ UNCHANGED ctl_vars
    /\ UNCHANGED << epics_config, in_queue, running_indicator, exit_event,
                    sup_pc, shutdown_event, pva_exit_event, serve, pva_order,
                    pva_input_variables, pva_cached_values, providers,
                    external, monitors, handler_pc, monitor_pc, context_open,
                    pva_server, is_constant, structures, posts, remote_puts,
                    op >>
    /\ UNCHANGED << comm_vars, ca_vars, hist_vars >>

\* update_pv, lines 115-129 (and _monitor_callback, lines 138-154): the entry
\* cached for the variable is the entry already cached or, without one, the
\* adapter's own Variable object; the value received is not assigned to it
CachedSnapshot(cache, v, val) ==
    IF v \in DOMAIN cache THEN cache[v] ELSE pva_input_variables[v]

\* the adapter serves its PVs: setup is over and the process has not ended
Serving == pva_pc \in {"run", "flush"}

\* PVAccessInputHandler.put, line 557: the put is forwarded
HandlerForwards_IgnoreConstant(v, val) == val # None

HandlerForwards(v, val) == v \notin is_constant /\ val # None

\* op.done() after update_pv returned without a put on the inbound queue
OpAfterCaching_NoDone == "pending"

OpAfterCaching == "done"

\* PVAccessInputHandler.put, line 558: pv.post(op.value()) before update_pv
Posted_Deferred(current, val) == current

Posted(current, val) == val

\* PVAccessInputHandler.put up to the test of line 132.  A put that is not
\* forwarded is marked complete at once (line 561); one that is forwarded is
\* posted on the PV and cached, and the running indicator is read: when it is
\* true update_pv returns and the put is marked complete
HandlerPut(v, val) ==
    /\ Serving
    /\ handler_pc = "idle"
    /\ writes < MaxWrites
    /\ v \in DOMAIN providers
    /\ writes' = writes + 1
    /\ IF HandlerForwards(v, val)
       THEN /\ providers' = [providers EXCEPT ![v] = Posted(@, val)]
            /\ pva_cached_values' =
                   Merge(pva_cached_values, v,
                         CachedSnapshot(pva_cached_values, v, val))
            /\ handler_pc' = IF running_indicator THEN "idle" ELSE "put"
            /\ op' = PutOp(IF running_indicator THEN OpAfterCaching
                           ELSE "pending", v, val)
            /\ last_written' = [last_written EXCEPT ![v] = val]
       ELSE /\ op' = PutOp("done", v, val)
            /\ UNCHANGED << providers, pva_cached_values, handler_pc,
                            last_written >>
    /\ UNCHANGED ctl_vars
    /\ UNCHANGED << shared_vars, pva_pc, shutdown_event, pva_exit_event, serve,
                    pva_order, pva_input_variables, external, monitors,
                    monitor_pc, context_open, pva_server, is_constant,
                    structures, posts, remote_puts, pva_error >>
    /\ UNCHANGED << comm_vars, ca_vars, observed, in_flight, cycle >>

\* PVAccessInputHandler.put, lines 558-559, with update_pv raising before it
\* caches anything (lines 115-124: a value without the attribute it reads):
\* the value is on the PV, the exception leaves put and line 561 is not reached
HandlerPutRaises(v, val) ==
    /\ Serving
    /\ handler_pc = "idle"
    /\ writes < MaxWrites
    /\ v \in DOMAIN providers
    /\ HandlerForwards(v, val)
    /\ writes' = writes + 1
    /\ providers' = [providers EXCEPT ![v] = Posted(@, val)]
    /\ op' = PutOp("abandoned", v, val)
    /\ last_written' = [last_written EXCEPT ![v] = val]
    /\ UNCHANGED ctl_vars
    /\ UNCHANGED << shared_vars, pva_pc, shutdown_event, pva_exit_event, serve,
                    pva_order, pva_input_variables, pva_cached_values,
                    external, monitors, handler_pc, monitor_pc, context_open,
                    pva_server, is_constant, structures, posts, remote_puts,
                    pva_error >>
    /\ UNCHANGED << comm_vars, ca_vars, observed, in_flight, cycle >>

\* self._cached_values = {} after the put of update_pv and _monitor_callback
FlushedCache_Kept(cache) == cache

FlushedCache(cache) == EmptyDict

\* update_pv, lines 133-134: put the cache on the inbound queue, start a new
\* one; put, line 561: op.done()
HandlerFlush ==
    /\ handler_pc = "put"
    /\ Len(in_queue) < MaxInQueue
    /\ in_queue' = Append(in_queue, PVABatch(pva_cached_values))
    /\ pva_cached_values' = FlushedCache(pva_cached_values)
    /\ handler_pc' = "idle"
    /\ op' = [op EXCEPT !.st = "done"]
    /\ UNCHANGED ctl_vars
    /\ UNCHANGED << epics_config, out_queues, running_indicator, exit_event,
                    sup_pc, pva_pc, shutdown_event, pva_exit_event, serve,
                    pva_order, pva_input_variables, providers, external,
                    monitors, monitor_pc, context_open, pva_server,
                    is_constant, structures, posts, remote_puts, pva_error >>
    /\ UNCHANGED << comm_vars, ca_vars, hist_vars >>

\* _monitor_callback up to the test of line 157, for a monitored input
MonitorEvent(v, val) ==
    /\ Serving
    /\ monitor_pc = "idle"
    /\ writes < MaxWrites
    /\ v \in monitors \cap DOMAIN pva_input_variables
    /\ pva_cached_values' =
           Merge(pva_cached_values, v, CachedSnapshot(pva_cached_values, v, val))
    /\ monitor_pc' = IF running_indicator THEN "idle" ELSE "put"
    /\ last_written' = [last_written EXCEPT ![v] = val]
    /\ writes' = writes + 1
    /\ UNCHANGED ctl_vars
    /\ UNCHANGED << shared_vars, pva_pc, shutdown_event, pva_exit_event, serve,
                    pva_order, pva_input_variables, providers, external,
                    monitors, handler_pc, context_open, pva_server, pva_more >>
    /\ UNCHANGED << comm_vars, ca_vars, observed, in_flight, cycle >>

\* _monitor_callback, lines 158-159
MonitorFlush ==
    /\ monitor_pc = "put"
    /\ Len(in_queue) < MaxInQueue
    /\ in_queue' = Append(in_queue, PVABatch(pva_cached_values))
    /\ pva_cached_values' = FlushedCache(pva_cached_values)
    /\ monitor_pc' = "idle"
    /\ UNCHANGED ctl_vars
    /\ UNCHANGED << epics_config, out_queues, running_indicator, exit_event,
                    sup_pc, pva_pc, shutdown_event, pva_exit_event, serve,
                    pva_order, pva_input_variables, providers, external,
                    monitors, handler_pc, context_open, pva_server, pva_more >>
    /\ UNCHANGED << comm_vars, ca_vars, hist_vars >>

\* update_pvs, line 428: the parent of a field of the served structure
HasParent(v) == v \in DOMAIN structures

\* update_pvs, lines 470-472: the field is assigned in self._structures and
\* the Value posted is built from the whole of it
StructurePost_PartialDiff(structure, v, val) == [f \in {v} |-> val]

StructurePost(structure, v, val) == Merge(structure, v, val)

\* update_pvs, lines 430-431: the test that guards the computation of `value`
IsConstantInput(v) == v \in DOMAIN pva_input_variables /\ v \in is_constant

\* update_pvs, lines 427-489, over the variables of a message in their order
\* (the inputs, then the outputs).  For a constant input `value` is not
\* computed, and the publication that follows uses the local `value` as the
\* variable before it left it (acc.value; acc.bound is false while no variable
\* has assigned it, and then reading it raises UnboundLocalError).  A field is
\* merged into its structure, which is posted on the parent's PV; a variable
\* with a provider is posted on its PV; one whose provider is None is written
\* with the client context, inside a try whose bare except catches whatever
\* is raised (acc.caught); one without an entry in _providers raises KeyError
\* (line 478) and ends the call.
RECURSIVE UpdatePvs(_, _, _)
UpdatePvs(names, msg, acc) ==
    IF names = << >> \/ acc.raised THEN acc
    ELSE LET v == Head(names)
             bound == acc.bound \/ ~IsConstantInput(v)
             value == IF IsConstantInput(v) THEN acc.value ELSE msg.vals[v]
             next == [acc EXCEPT !.bound = bound, !.value = value]
             unbound == [acc EXCEPT !.raised = TRUE,
                                    !.error = "UnboundLocalError"]
         IN  IF v \notin DOMAIN msg.vals
             THEN UpdatePvs(Tail(names), msg, acc)
             ELSE IF v \in DOMAIN acc.structures
             THEN IF ~bound THEN unbound
                  ELSE UpdatePvs(Tail(names), msg,
                      [next EXCEPT
                          !.structures = Merge(@, v, value),
                          !.posts = Append(@,
                              [field |-> v, new |-> value,
                               before |-> acc.structures,
                               after |-> StructurePost(acc.structures, v,
                                                       value)])])
             ELSE IF v \in DOMAIN acc.providers
             THEN IF ~bound THEN unbound
                  ELSE UpdatePvs(Tail(names), msg,
                      [next EXCEPT !.providers = Merge(@, v, value)])
             ELSE IF v \in external
             THEN IF ~bound
                  THEN UpdatePvs(Tail(names), msg, [next EXCEPT !.caught = TRUE])
                  ELSE UpdatePvs(Tail(names), msg,
                      [next EXCEPT !.remote = @ \cup {v}])
             ELSE [acc EXCEPT !.raised = TRUE, !.error = "KeyError"]

\* the PVs after update_pvs(inputs, outputs) with the variables of a message
Published(msg) ==
    UpdatePvs(InputOrder \o OutputOrder, msg,
              [providers |-> providers, structures |-> structures,
               posts |-> << >>, remote |-> {}, raised |-> FALSE,
               error |-> "none", caught |-> FALSE, bound |-> FALSE,
               value |-> None])

\* update_pvs, lines 487-489: what the failure of self._context.put sets
RemoteFailureFlags_ExitOnly == [exit_event |-> TRUE, shutdown_event |-> FALSE]

RemoteFailureFlags == [exit_event |-> TRUE, shutdown_event |-> TRUE]

\* run, lines 498-507: a message is dequeued and republished by update_pvs;
\* then the cache and the running indicator are tested.  remote_fails: a
\* write to an externally hosted PV raises, and lines 488-489 run
PVADequeue(remote_fails) ==
    /\ out_queues' = [out_queues EXCEPT !["pva"] = Tail(@)]
    /\ LET r == Published(Head(out_queues["pva"]))
       IN  /\ remote_fails => r.remote # {}
           /\ providers' = r.providers
           /\ structures' = r.structures
           /\ posts' = r.posts
           /\ remote_puts' = r.remote
           /\ IF r.raised
              THEN /\ pva_pc' = "failed"
                   /\ pva_error' = r.error
              ELSE /\ pva_pc' = IF pva_cached_values # EmptyDict
                                   /\ ~running_indicator
                                THEN "flush" ELSE "run"
                   /\ UNCHANGED pva_error
    /\ IF remote_fails \/ Published(Head(out_queues["pva"])).caught
       THEN /\ pva_exit_event' = RemoteFailureFlags.exit_event
            /\ shutdown_event' = RemoteFailureFlags.shutdown_event
       ELSE UNCHANGED << pva_exit_event, shutdown_event >>
    /\ UNCHANGED ctl_vars
    /\ UNCHANGED << epics_config, in_queue, running_indicator, exit_event,
                    sup_pc, serve, pva_order, pva_input_variables,
                    pva_cached_values, external, monitors, handler_pc,
                    monitor_pc, context_open, pva_server, is_constant, op >>
    /\ UNCHANGED << comm_vars, ca_vars, hist_vars >>

\* every call of update_pvs returns or raises KeyError
PVARun ==
    /\ pva_pc = "run"
    /\ ~shutdown_event
    /\ out_queues["pva"] # << >>
    /\ PVADequeue(FALSE)

\* a write of update_pvs to an externally hosted PV fails
PVARunRemoteFails ==
    /\ pva_pc = "run"
    /\ ~shutdown_event
    /\ out_queues["pva"] # << >>
    /\ PVADequeue(TRUE)

\* run, lines 505-507: the cache is put on the inbound queue; it is the same
\* dictionary afterwards
PVARunFlush ==
    /\ pva_pc = "flush"
    /\ Len(in_queue) < MaxInQueue
    /\ in_queue' = Append(in_queue, PVABatch(pva_cached_values))
    /\ pva_pc' = "run"
    /\ UNCHANGED ctl_vars
    /\ UNCHANGED << epics_config, out_queues, running_indicator, exit_event,
                    sup_pc, shutdown_event, pva_exit_event, pva_state >>
    /\ UNCHANGED << comm_vars, ca_vars, hist_vars >>

\* run, lines 514-515: if self.pva_server is not None: self.pva_server.stop()
ServerAfterStop_Left(server) == server

ServerAfterStop(server) == IF server = "started" THEN "stopped" ELSE server

\* the shutdown event is seen: by the wait for the first outputs (lines
\* 200-208, with or without a message taken in its last get) or at the top of
\* the main loop (line 496); lines 513-515 close the context and stop the server
PVAExit ==
    /\ pva_pc \in {"wait_outputs", "run"}
    /\ shutdown_event
    /\ \E took \in {FALSE, pva_pc = "wait_outputs" /\ out_queues["pva"] # << >>} :
           out_queues' = IF took THEN [out_queues EXCEPT !["pva"] = Tail(@)]
                         ELSE out_queues
    /\ context_open' = FALSE
    /\ pva_server' = ServerAfterStop(pva_server)
    /\ pva_pc' = "stopped"
    /\ UNCHANGED ctl_vars
    /\ UNCHANGED << epics_config, in_queue, running_indicator, exit_event,
                    sup_pc, shutdown_event, pva_exit_event, serve, pva_order,
                    pva_input_variables, pva_cached_values, providers,
                    external, monitors, handler_pc, monitor_pc, pva_more >>
    /\ UNCHANGED << comm_vars, ca_vars, hist_vars >>

\* ------------------------- the other end of PVAServer's queues and flag
\* the holder of in_queue takes a batch and marks the evaluation as running,
\* as run_comm_thread does in lines 209-212
EnvGet ==
    /\ ~running_indicator
    /\ in_queue # << >>
    /\ in_queue' = Tail(in_queue)
    /\ running_indicator' = TRUE
    /\ cycle' = NoCycle
    /\ UNCHANGED ctl_vars
    /\ UNCHANGED << epics_config, out_queues, exit_event, sup_pc >>
    /\ UNCHANGED << comm_vars, ca_vars, pva_vars, observed, last_written,
                    writes, in_flight >>

\* it puts the outputs of the cycle on the outbound queue (line 245)
EnvPutOutputs(out) ==
    /\ running_indicator
    /\ cycle.enqueued = {}
    /\ Len(out_queues["pva"]) < OutQueueCap
    /\ out_queues' = [out_queues EXCEPT !["pva"] = Append(@, OutputMessage(out))]
    /\ cycle' = [cycle EXCEPT !.evaluated = TRUE, !.enqueued = {"pva"}]
    /\ UNCHANGED ctl_vars
    /\ UNCHANGED << epics_config, in_queue, running_indicator, exit_event, sup_pc >>
    /\ UNCHANGED << comm_vars, ca_vars, pva_vars, observed, last_written,
                    writes, in_flight >>

\* the input messages it sends: the constant input x2 alone, or x1 with a
\* value other than its default and x2 (a constant keeps its default)
InputMessages ==
    { [kind |-> "input_variables", vals |-> [v \in {"x2"} |-> Default]],
      [kind |-> "input_variables",
       vals |-> [v \in InputVars |-> IF v = "x1" THEN MaxValue ELSE Default]] }

\* it puts input variables on the empty outbound queue of an adapter that
\* has started its server; run hands them to update_pvs as `inputs` (lines
\* 499-501)
EnvPutInputs(msg) ==
    /\ running_indicator
    /\ cycle.enqueued = {}
    /\ pva_server = "started"
    /\ out_queues["pva"] = << >>
    /\ out_queues' = [out_queues EXCEPT !["pva"] = Append(@, msg)]
    /\ cycle' = [cycle EXCEPT !.enqueued = {"pva"}]
    /\ UNCHANGED ctl_vars
    /\ UNCHANGED << epics_config, in_queue, running_indicator, exit_event, sup_pc >>
    /\ UNCHANGED << comm_vars, ca_vars, pva_vars, observed, last_written,
                    writes, in_flight >>

\* it resets the running indicator (line 247)
EnvUnmark ==
    /\ running_indicator
    /\ running_indicator' = FALSE
    /\ UNCHANGED ctl_vars
    /\ UNCHANGED << epics_config, in_queue, out_queues, exit_event, sup_pc >>
    /\ UNCHANGED << comm_vars, ca_vars, pva_vars, hist_vars >>

\* PVAServer.shutdown()
Shutdown ==
    /\ ~shutdown_event
    /\ pva_pc # "setup"
    /\ shutdown_event' = TRUE
    /\ UNCHANGED ctl_vars
    /\ UNCHANGED << shared_vars, pva_pc, pva_exit_event, pva_state >>
    /\ UNCHANGED << comm_vars, ca_vars, hist_vars >>

\* ------------------------------------------------------- Server.stop
\* self.exit_event.set(), then self.comm_thread.join()
Stop ==
    /\ sup_pc = "started"
    /\ exit_event' = TRUE
    /\ sup_pc' = "joining"
    /\ UNCHANGED ctl_vars
    /\ UNCHANGED << epics_config, in_queue, out_queues, running_indicator >>
    /\ UNCHANGED << comm_vars, ca_vars, pva_vars, hist_vars >>

\* the join returned: shutdown() of the adapter of the configured protocol
\* (lines 295-301)
StopAdapters ==
    /\ sup_pc = "joining"
    /\ comm_pc \in {"stopped", "crashed"}
    /\ ca_shutdown' = ("ca" \in ProtocolSet(epics_config))
    /\ shutdown_event' = ("pva" \in ProtocolSet(epics_config))
    /\ sup_pc' = "joining_adapter"
    /\ UNCHANGED ctl_vars
    /\ UNCHANGED << epics_config, in_queue, out_queues, running_indicator,
                    exit_event, ca_pc, ca_cached_values, ca_output, pva_pc,
                    pva_exit_event, pva_state >>
    /\ UNCHANGED << comm_vars, hist_vars >>

\* a process that has ended, by returning from run or by an exception
Ended(pc) == pc \in {"absent", "stopped", "failed"}

\* ca_process.join() / pva_process.join() return: the process has ended
JoinAdapters ==
    /\ sup_pc = "joining_adapter"
    /\ Ended(ca_pc)
    /\ Ended(pva_pc)
    /\ sup_pc' = "stopped"
    /\ UNCHANGED ctl_vars
    /\ UNCHANGED << epics_config, in_queue, out_queues, running_indicator,
                    exit_event >>
    /\ UNCHANGED << comm_vars, ca_vars, pva_vars, hist_vars >>

\* start(monitor=True), lines 276-278: any(exit_event.is_set() for the
\* processes of the configured protocols)
AnyExitEvent_Ignored == FALSE

AnyExitEvent == "pva" \in ProtocolSet(epics_config) /\ pva_exit_event

\* start(monitor=True), lines 276-282: the loop ends when a process has set
\* its exit event, and stop() is called: self.exit_event.set(), then
\* self.comm_thread.join()
MonitorStop ==
    /\ sup_pc = "started"
    /\ AnyExitEvent
    /\ exit_event' = TRUE
    /\ sup_pc' = "joining"
    /\ UNCHANGED ctl_vars
    /\ UNCHANGED << epics_config, in_queue, out_queues, running_indicator >>
    /\ UNCHANGED << comm_vars, ca_vars, pva_vars, hist_vars >>

\* ----------------------------------------------------------- Controller
\* the PVs the client reads: a scalar and an image
ScalarPV == "x"
ImagePV == "img"

\* f"{pvname}:ArrayData_RBV" and the other records of an image over
\* Channel Access
Record(pvbase, suffix) == pvbase \o ":" \o suffix

\* the 2-D array of the image: a handle that is not None, and its shape
ArrayShape == << 2, 2 >>
ImageData == ArrayShape[1] * ArrayShape[2]

Geometry == { 5 * k : k \in 0 .. MaxGeometry }

\* the value the server hosts under a name
Hosted(pvname) ==
    CASE pvname = ScalarPV -> scalar_pv
      [] pvname = ImagePV -> ImageData
      [] pvname = Record(ImagePV, "ArrayData_RBV") -> ImageData
      [] pvname = Record(ImagePV, "ArraySizeX_RBV") -> ArrayShape[1]
      [] pvname = Record(ImagePV, "ArraySizeY_RBV") -> ArrayShape[2]
      [] pvname = Record(ImagePV, "MinX_RBV") -> attrib.x_min
      [] pvname = Record(ImagePV, "MinY_RBV") -> attrib.y_min
      [] pvname = Record(ImagePV, "MaxX_RBV") -> attrib.x_max
      [] pvname = Record(ImagePV, "MaxY_RBV") -> attrib.y_max

DEFAULT_IMAGE_DATA ==
    [image |-> "zeros", x |-> 50, y |-> 50, dw |-> "0.01", dh |-> "0.01"]

DEFAULT_SCALAR_VALUE == 0

\* Controller.__init__
ControllerInit ==
    /\ protocol \in ProtocolNames
    /\ context = IF protocol = "pva" THEN "open" ELSE "none"
    /\ pv_registry = EmptyDict

\* setup_pv_monitor: a name in the registry is left alone; over Channel Access
\* a PV object is registered with the value None; over pvAccess line 91 reads
\* the name functools, which the module does not import
SetupPvMonitor(registry, pvname) ==
    IF pvname \in DOMAIN registry
    THEN [registry |-> registry, error |-> "none"]
    ELSE IF protocol = "ca"
    THEN [registry |-> Merge(registry, pvname, None), error |-> "none"]
    ELSE IF protocol = "pva"
    THEN [registry |-> registry, error |-> "NameError"]
    ELSE [registry |-> registry, error |-> "none"]

\* get: the value of the registry entry; the callback of the subscription may
\* run between its registration and the read of the entry (arrive)
Get(registry, pvname, arrive) ==
    LET s == SetupPvMonitor(registry, pvname)
        reg == IF pvname \in DOMAIN s.registry /\ pvname \in arrive
               THEN Merge(s.registry, pvname, Hosted(pvname))
               ELSE s.registry
    IN  [registry |-> reg,
         error |-> s.error,
         value |-> IF s.error = "none" /\ pvname \in DOMAIN reg
                   THEN reg[pvname] ELSE None]

\* the registry after self.get of each name of a sequence
RECURSIVE GetEach(_, _, _)
GetEach(registry, names, arrive) ==
    IF names = << >> THEN registry
    ELSE GetEach(Get(registry, Head(names), arrive).registry, Tail(names), arrive)

\* ca_value_callback / pva_value_callback: the subscription of a registered
\* name delivers the hosted value
ValueCallback(pvname) ==
    /\ pvname \in DOMAIN pv_registry
    /\ pv_registry[pvname] # Hosted(pvname)
    /\ pv_registry' = Merge(pv_registry, pvname, Hosted(pvname))
    /\ UNCHANGED << protocol, context, attrib, scalar_pv, returned >>
    /\ UNCHANGED << shared_vars, comm_vars, ca_vars, pva_vars, hist_vars >>

\* get_value
ControllerGetValue(pvname) ==
    /\ protocol # "none"
    /\ \E arrive \in SUBSET {pvname} :
           LET g == Get(pv_registry, pvname, arrive)
           IN  /\ pv_registry' = g.registry
               /\ returned' =
                      IF g.error # "none"
                      THEN Raise("get_value", pvname, g.error)
                      ELSE Return("get_value", pvname,
                                  IF g.value = None THEN DEFAULT_SCALAR_VALUE
                                  ELSE g.value)
    /\ UNCHANGED << protocol, context, attrib, scalar_pv >>
    /\ UNCHANGED << shared_vars, comm_vars, ca_vars, pva_vars, hist_vars >>

\* the dictionary get_image returns for an image and its geometry
ImageDict(x, y, dw, dh) ==
    [image |-> "array", x |-> x, y |-> y, dw |-> dw, dh |-> dh]

\* get_image over Channel Access (lines 131-143): the records of the image
\* are read one by one; None in an arithmetic expression or in int() raises
\* TypeError
GetImageCA(pvname, arrive) ==
    LET R(suffix) == Record(pvname, suffix)
        g1 == Get(pv_registry, R("ArrayData_RBV"), arrive)
        reg6 == GetEach(g1.registry,
                        << R("ArraySizeX_RBV"), R("ArraySizeY_RBV"),
                           R("MinX_RBV"), R("MinY_RBV"), R("MaxX_RBV") >>,
                        arrive)
        reg7 == GetEach(reg6, << R("MaxY_RBV") >>, arrive)
    IN  IF g1.value = None
        THEN [registry |-> g1.registry,
              returned |-> Return("get_image", pvname, DEFAULT_IMAGE_DATA)]
        ELSE IF reg6[R("MaxX_RBV")] = None \/ reg6[R("MinX_RBV")] = None
        THEN [registry |-> reg6,
              returned |-> Raise("get_image", pvname, "TypeError")]
        ELSE IF reg7[R("MaxY_RBV")] = None \/ reg7[R("MinY_RBV")] = None
        THEN [registry |-> reg7,
              returned |-> Raise("get_image", pvname, "TypeError")]
        ELSE IF reg7[R("ArraySizeX_RBV")] = None
                \/ reg7[R("ArraySizeY_RBV")] = None
        THEN [registry |-> reg7,
              returned |-> Raise("get_image", pvname, "TypeError")]
        ELSE [registry |-> reg7,
              returned |->
                  Return("get_image", pvname,
                         ImageDict(reg7[R("MinX_RBV")], reg7[R("MinY_RBV")],
                                   reg7[R("MaxX_RBV")] - reg7[R("MinX_RBV")],
                                   reg7[R("MaxY_RBV")] - reg7[R("MinY_RBV")]))]

\* get_image over pvAccess (lines 145-156): the bounding box is derived from
\* the attributes of the value
GetImagePVA(pvname, arrive) ==
    LET g == Get(pv_registry, pvname, arrive)
    IN  IF g.error # "none"
        THEN [registry |-> g.registry,
              returned |-> Raise("get_image", pvname, g.error)]
        ELSE IF g.value = None
        THEN [registry |-> g.registry,
              returned |-> Return("get_image", pvname, DEFAULT_IMAGE_DATA)]
        ELSE [registry |-> g.registry,
              returned |->
                  Return("get_image", pvname,
                         ImageDict(attrib.x_min, attrib.y_min,
                                   attrib.x_max - attrib.x_min,
                                   attrib.y_max - attrib.y_min))]

\* the names get_image reads for an image
ImageNames(pvname) ==
    { Record(pvname, "ArrayData_RBV"), Record(pvname, "ArraySizeX_RBV"),
      Record(pvname, "ArraySizeY_RBV"), Record(pvname, "MinX_RBV"),
      Record(pvname, "MinY_RBV"), Record(pvname, "MaxX_RBV"),
      Record(pvname, "MaxY_RBV"), pvname }

\* get_image; the subscriptions it opens deliver their first value either
\* before the entries are read or after the call
ControllerGetImage(pvname) ==
    /\ protocol # "none"
    /\ \E arrive \in { {}, ImageNames(pvname) } :
           LET r == IF protocol = "ca" THEN GetImageCA(pvname, arrive)
                    ELSE GetImagePVA(pvname, arrive)
           IN  /\ pv_registry' = r.registry
               /\ returned' = r.returned
    /\ UNCHANGED << protocol, context, attrib, scalar_pv >>
    /\ UNCHANGED << shared_vars, comm_vars, ca_vars, pva_vars, hist_vars >>

\* put: caput, or context.put(pvname, value, throw=False)
ControllerPut(pvname, value) ==
    /\ protocol # "none"
    /\ protocol = "pva" => context = "open"
    /\ scalar_pv' = value
    /\ returned' = Return("put", pvname, None)
    /\ UNCHANGED << protocol, context, pv_registry, attrib >>
    /\ UNCHANGED << shared_vars, comm_vars, ca_vars, pva_vars, hist_vars >>

\* close
ControllerClose ==
    /\ protocol # "none"
    /\ returned.call # "close"
    /\ context' = IF protocol = "pva" THEN "closed" ELSE context
    /\ returned' = Return("close", "none", None)
    /\ UNCHANGED << protocol, pv_registry, attrib, scalar_pv >>
    /\ UNCHANGED << shared_vars, comm_vars, ca_vars, pva_vars, hist_vars >>

Next ==
    \/ CommLoop
    \/ CommGet
    \/ CommEmpty
    \/ CommApply
    \/ CommEvaluate
    \/ CommEvaluateRaises
    \/ CommBroadcast
    \/ CommBroadcastFull
    \/ CommUnmark
    \/ CASetup
    \/ \E v \in RegisteredInputs("ca"), val \in Values : CAUpdatePv(v, val)
    \/ CARun
    \/ CAExit
    \/ PVAInitializeModel
    \/ PVAExit
    \/ Stop
    \/ StopAdapters
    \/ JoinAdapters

Spec == Init /\ [][Next]_vars

\* the pva descriptor tables: a PV for every variable, or a PV for every
\* input and the structure that groups the outputs
PVAConfigs == { [ca |-> {}, pva |-> Variables],
                [ca |-> {}, pva |-> InputVars \cup {Parent}] }

\* a PVAServer of one of these tables, with any serve flags for the
\* variables (the structure is served); x2 is a constant input
InitPVA ==
    /\ epics_config \in PVAConfigs
    /\ serve \in { f \in [Descriptors -> BOOLEAN] :
                      \A v \in Descriptors \ (epics_config["pva"] \ {Parent}) : f[v] }
    /\ pva_order = DescriptorOrder(epics_config, "pva")
    /\ is_constant = {"x2"}
    /\ Constructed
    /\ NoController

NextPVA ==
    \/ PVAInitializeModel
    \/ PVAConnectFails
    \/ PVAStartServer
    \/ PVASetupRaises
    \/ \E v \in InputVars, val \in Values \cup {None} : HandlerPut(v, val)
    \/ \E v \in InputVars, val \in Values : HandlerPutRaises(v, val)
    \/ HandlerFlush
    \/ \E v \in InputVars, val \in Values : MonitorEvent(v, val)
    \/ MonitorFlush
    \/ PVARun
    \/ PVARunRemoteFails
    \/ PVARunFlush
    \/ PVAExit
    \/ EnvGet
    \/ \E out \in Values : EnvPutOutputs(out)
    \/ \E msg \in InputMessages : EnvPutInputs(msg)
    \/ EnvUnmark
    \/ Shutdown

SpecPVA == InitPVA /\ [][NextPVA]_vars

\* the PVAServer process keeps running its loop (lines 496-510: it reaches
\* the test of the shutdown event, takes the message that waits on the
\* outbound queue and completes the put of a flush), the handler and monitor
\* threads complete their puts, and the holder of the inbound queue keeps
\* taking batches and resetting the flag
FairSpecPVA ==
    /\ SpecPVA
    /\ WF_vars(PVAExit)
    /\ WF_vars(PVARun)
    /\ WF_vars(PVARunFlush)
    /\ WF_vars(HandlerFlush)
    /\ WF_vars(MonitorFlush)
    /\ WF_vars(EnvGet)
    /\ WF_vars(EnvUnmark)

\* a Controller of either protocol and the server that hosts a scalar PV and
\* an image PV of any geometry
InitController ==
    /\ epics_config = [ca |-> {}, pva |-> Variables]
    /\ serve = [v \in Descriptors |-> TRUE]
    /\ pva_order = DescriptorOrder(epics_config, "pva")
    /\ is_constant = {}
    /\ Constructed
    /\ ControllerInit
    /\ attrib \in [x_min : Geometry, x_max : Geometry,
                   y_min : Geometry, y_max : Geometry]
    /\ scalar_pv = Default
    /\ returned = NoCall

NextController ==
    \/ ControllerGetValue(ScalarPV)
    \/ ControllerGetImage(ImagePV)
    \/ \E pvname \in ImageNames(ImagePV) \cup {ScalarPV} : ValueCallback(pvname)
    \/ \E value \in Values : ControllerPut(ScalarPV, value)
    \/ ControllerClose

SpecController == InitController /\ [][NextController]_vars

\* the Server started with monitor=True, for any configuration and any serve
\* flags of the pva descriptors of the inputs
InitMonitor ==
    /\ epics_config \in Configs
    /\ serve \in { f \in [Descriptors -> BOOLEAN] :
                      \A v \in Descriptors \ (epics_config["pva"] \cap InputVars) : f[v] }
    /\ pva_order = DescriptorOrder(epics_config, "pva")
    /\ is_constant = {}
    /\ Constructed
    /\ NoController

\* Stop is the KeyboardInterrupt of lines 284-285
NextMonitor ==
    \/ Next
    \/ PVAConnectFails
    \/ MonitorStop

\* the supervisor, the dispatcher thread and the adapter processes keep
\* running, and evaluate returns or raises
SpecMonitor ==
    /\ InitMonitor
    /\ [][NextMonitor]_vars
    /\ WF_vars(MonitorStop)
    /\ WF_vars(StopAdapters)
    /\ WF_vars(JoinAdapters)
    /\ WF_vars(CommLoop)
    /\ WF_vars(CommGet)
    /\ WF_vars(CommEmpty)
    /\ WF_vars(CommApply)
    /\ WF_vars(CommEvaluate)
    /\ WF_vars(CommBroadcast)
    /\ WF_vars(CommBroadcastFull)
    /\ WF_vars(CommUnmark)
    /\ WF_vars(CAExit)
    /\ WF_vars(PVAExit)

\* ------------------------------------------------------------- claims
\* the system is in service and at rest: the queues are empty, the dispatcher
\* holds no batch and runs no evaluation, and no adapter has a flush to make
Quiescent ==
    /\ ~exit_event
    /\ in_queue = << >>
    /\ \A p \in DOMAIN out_queues : out_queues[p] = << >>
    /\ comm_pc \in {"loop", "get"}
    /\ ca_pc # "setup"
    /\ pva_pc # "setup"
    /\ ~(ca_pc = "run" /\ ca_cached_values # EmptyDict /\ ~running_indicator)

\* C1: at quiescence the canonical store holds, for every input variable a
\* client has written, the value of the last write to it.
C1_StoreHoldsLastWrite ==
    Quiescent =>
        \A v \in InputVars :
            last_written[v] # None => input_variables[v] = last_written[v]

\* C2: while the running flag is true no batch is put on the inbound queue.
C2_NoFlushWhileRunning ==
    [][running_indicator => Len(in_queue') <= Len(in_queue)]_vars

\* C3: at most one evaluate call is in progress, and the dispatcher takes no
\* batch off the inbound queue while the call has not returned.
C3_SingleEvaluation ==
    /\ [](in_flight <= 1)
    /\ [][comm_pc = "evaluate" =>
             (in_queue' = in_queue \/ Len(in_queue') > Len(in_queue))]_vars

\* an evaluation is running while a further batch waits on the inbound queue
C3_Witness == comm_pc = "evaluate" /\ in_flight = 1 /\ in_queue # << >>

\* C4: readiness, once true, stays true, and every batch applied while it is
\* true is followed by an evaluate call, also a batch that omits variables.
C4_ReadinessMonotonic ==
    /\ [][inputs_initialized = 1 => inputs_initialized' = 1]_vars
    /\ [][(comm_pc = "apply" /\ inputs_initialized = 1 /\ comm_pc' # "apply")
             => comm_pc' = "evaluate"]_vars

\* evaluate is called for a batch that omits a variable
C4_Witness ==
    /\ comm_pc = "evaluate"
    /\ inputs_initialized = 1
    /\ DOMAIN data.vals # InputVars

\* C5: evaluate is not called before every input variable has been seen in a
\* batch the dispatcher applied.
C5_NoEvaluateBeforeObserved ==
    (comm_pc = "evaluate" \/ in_flight > 0) => observed = InputVars

\* evaluate is being called
C5_Witness == comm_pc = "evaluate" /\ observed = InputVars

\* C6: if evaluate raises, the dispatcher keeps running.
C6_SurvivesEvaluationError ==
    comm_error = "EvaluationError" => comm_pc # "crashed"

C9_BothProtocolsServed ==
    (epics_config["ca"] # {} /\ epics_config["pva"] # {})
        => (DOMAIN out_queues = ProtocolNames
            /\ ca_pc # "absent" /\ pva_pc # "absent")

\* C10: once a batch from protocol P has been applied, the outbound queue of
\* every other protocol that has descriptors ends with the mirror of the
\* updated variables registered as inputs on it.
C10_MirrorToOtherProtocols ==
    (comm_pc \in {"evaluate", "unmark"} /\ "pvs" \in data.keys) =>
        \A q \in ProtocolNames \ {data.protocol} :
            (RegisteredInputs(q) \cap DOMAIN data.vals # {}) =>
                /\ q \in DOMAIN out_queues
                /\ out_queues[q] # << >>
                /\ out_queues[q][Len(out_queues[q])] =
                       [kind |-> "input_variables",
                        vals |-> [v \in RegisteredInputs(q) \cap DOMAIN data.vals
                                    |-> input_variables[v]]]

\* C11: every post that update_pvs makes on the PV of a structure carries all
\* the declared fields: the changed field has its new value and every other
\* field has the value it had in the previous post.
C11_StructurePublishesAllFields ==
    \A i \in DOMAIN posts :
        /\ DOMAIN posts[i].after = FieldSet
        /\ posts[i].after[posts[i].field] = posts[i].new
        /\ \A f \in FieldSet \ {posts[i].field} :
               posts[i].after[f] = posts[i].before[f]

\* a post that changes one field while another field keeps a different value
C11_Witness ==
    \E i \in DOMAIN posts :
        /\ posts[i].before[posts[i].field] # posts[i].new
        /\ \E f \in FieldSet \ {posts[i].field} :
               posts[i].after[f] # posts[i].new

\* C12: a put on the PV of a constant input changes nothing: the PV is not
\* posted, the cache is unchanged and no batch is put on the inbound queue;
\* so no cache holds a constant.
C12_ConstantPutChangesNothing ==
    /\ [][(writes' = writes + 1 /\ op'.pv \in is_constant)
             => /\ providers' = providers
                /\ pva_cached_values' = pva_cached_values
                /\ in_queue' = in_queue
                /\ handler_pc' = handler_pc]_vars
    /\ [](\A v \in is_constant \cap DOMAIN providers :
             v \notin DOMAIN pva_cached_values)

\* a put of a new value on the PV of a constant input has been completed
C12_Witness ==
    /\ op.st = "done"
    /\ op.pv \in is_constant
    /\ op.val \notin {None, providers[op.pv]}

\* C13: every put on an input PV is marked complete (op.done), whether the
\* target is constant, the value is empty or update_pv fails: no put is left
\* without its completion.
C13_PutAlwaysAcknowledged == op.st \in {"none", "pending", "done"}

\* the write of update_pvs to an externally hosted PV has failed
RemoteWriteFailed == pva_exit_event /\ pva_server # "none"

\* C14: when the write to an externally hosted PV fails in update_pvs, the
\* adapter sets its fatal-exit flag and its shutdown flag; its main loop then
\* takes no further message off the outbound queue and terminates.
C14_RemoteWriteFailureIsFatal ==
    /\ [](RemoteWriteFailed => shutdown_event)
    /\ [][RemoteWriteFailed =>
             /\ Len(out_queues'["pva"]) >= Len(out_queues["pva"])
             /\ (pva_pc = "run" /\ pva_pc' # "run") => pva_pc' = "stopped"]_vars
    /\ RemoteWriteFailed ~> (pva_pc = "stopped")

\* the remote write failed and the process has left its main loop
C14_Witness ==
    /\ RemoteWriteFailed
    /\ remote_puts # {}
    /\ shutdown_event
    /\ pva_pc = "stopped"

\* C15: when the initial value of an externally hosted input cannot be
\* fetched, the adapter sets its fatal-exit flag and startup is over: no
\* batch reaches the inbound queue and no PV, structure, monitor or server is
\* created.
C15_ConnectFailureAbortsStartup ==
    pva_error = "ValueError" =>
        /\ pva_exit_event
        /\ pva_pc = "failed"
        /\ in_queue = << >>
        /\ providers = EmptyDict
        /\ structures = EmptyDict
        /\ monitors = {}
        /\ pva_server = "none"

\* the fetch of the second input failed after the first had its value
C15_Witness ==
    /\ pva_error = "ValueError"
    /\ pva_exit_event
    /\ \E v \in DOMAIN pva_input_variables : pva_input_variables[v] # None

\* C16: get_image on an image PV read over pvAccess returns the bounding box
\* of its geometry attributes: x = x_min, y = y_min, dw = x_max - x_min,
\* dh = y_max - y_min.
C16_GetImageBoundingBox ==
    (protocol = "pva" /\ returned.call = "get_image") =>
        /\ returned.error = "none"
        /\ returned.value.image = "array"
        /\ returned.value.x = attrib.x_min
        /\ returned.value.y = attrib.y_min
        /\ returned.value.dw = attrib.x_max - attrib.x_min
        /\ returned.value.dh = attrib.y_max - attrib.y_min

\* C17: the running flag is true exactly while an evaluate call is executing;
\* it is false while the dispatcher applies and mirrors a batch, on batches
\* handled before readiness, and whenever the dispatcher is outside evaluate.
C17_RunningOnlyDuringEvaluate ==
    running_indicator <=> (comm_pc = "evaluate")

\* C18: every batch the dispatcher takes off the inbound queue is accepted:
\* its entries are written to the canonical store and the dispatcher thread
\* does not end on it.
C18_BatchesAccepted ==
    [][(comm_pc = "apply" /\ comm_pc' # "apply") =>
           /\ comm_pc' # "crashed"
           /\ \A v \in DOMAIN data.vals : input_variables'[v] = data.vals[v]]_vars

\* update_pv or _monitor_callback receives a write to input v and caches it
CachesWrite(v) ==
    /\ writes' = writes + 1
    /\ last_written'[v] # last_written[v]
    /\ ~(op'.st = "abandoned" /\ op'.pv = v)

\* the put of update_pv or of _monitor_callback on the inbound queue
FlushesCache ==
    \/ handler_pc = "put" /\ handler_pc' = "idle"
    \/ monitor_pc = "put" /\ monitor_pc' = "idle"

C20_BatchHoldsLastWrites ==
    [][(Len(in_queue') > Len(in_queue) /\ pva_pc # "setup") =>
          \A v \in DOMAIN in_queue'[Len(in_queue')].vals :
              in_queue'[Len(in_queue')].vals[v] = last_written[v]]_vars

\* C21: a write cached while an evaluation was in progress is put on the
\* inbound queue once the running flag is false again, on the next iteration
\* of the main loop, also when no further message arrives on the outbound
\* queue: the loop starts a flush (or the cache is emptied by a flush of
\* update_pv) unless the adapter is shut down.
C21_CachedWriteEventuallyFlushed ==
    (pva_pc = "run" /\ pva_cached_values # EmptyDict /\ ~running_indicator)
        ~> (pva_pc # "run" \/ pva_cached_values = EmptyDict \/ shutdown_event)

\* C22: after every flush, the proactive flush of the main loop included, the
\* adapter cache is empty.
C22_CacheEmptyAfterFlush ==
    [][(Len(in_queue') > Len(in_queue) /\ pva_pc # "setup")
           => pva_cached_values' = EmptyDict]_vars

\* C23: update_pvs publishes nothing for a constant input, neither a post on
\* its PV nor a remote write, and it publishes the other variables of the
\* message with their own values.
C23_ConstantNotRepublished ==
    [][(pva_pc = "run" /\ Len(out_queues'["pva"]) < Len(out_queues["pva"])) =>
           LET msg == Head(out_queues["pva"])
           IN  /\ pva_error' # "UnboundLocalError"
               /\ \A v \in is_constant \cap DOMAIN msg.vals :
                      /\ v \in DOMAIN providers => providers'[v] = providers[v]
                      /\ v \notin remote_puts'
               /\ \A v \in (DOMAIN msg.vals \cap DOMAIN providers) \ is_constant :
                      providers'[v] = msg.vals[v]]_vars

\* C24: a put with a non-constant target and a non-empty value posts the new
\* value on the local PV in the step that receives it, before update_pv puts
\* anything on the inbound queue: the batch is enqueued by a later step.
C24_PostBeforeForward ==
    [][(op' # op /\ writes' = writes + 1 /\ HandlerForwards(op'.pv, op'.val))
           => /\ providers'[op'.pv] = op'.val
              /\ in_queue' = in_queue]_vars

\* the new value is on the PV while update_pv has yet to enqueue the write
C24_Witness ==
    /\ handler_pc = "put"
    /\ op.st = "pending"
    /\ op.val # Default
    /\ providers[op.pv] = op.val
    /\ in_queue = << >>

C26_NoDrainOnShutdown ==
    /\ [][(exit_event /\ comm_pc = "loop") => comm_pc' \in {"loop", "stopped"}]_vars
    /\ [][comm_pc = "stopped" =>
             /\ comm_pc' = "stopped"
             /\ input_variables' = input_variables
             /\ in_flight' = in_flight
             /\ Len(in_queue') >= Len(in_queue)]_vars
    /\ exit_event ~> (comm_pc \in {"stopped", "crashed"})

\* the dispatcher has exited and left a batch on the inbound queue
C26_Witness ==
    /\ exit_event
    /\ comm_pc = "stopped"
    /\ in_queue # << >>
    /\ "pvs" \in Head(in_queue).keys

\* C27: once the shutdown flag of the adapter is set, the adapter terminates:
\* the wait for the initial outputs and the main loop take no further message
\* and exit, and the client context is then closed and the PV server, if one
\* was started, is stopped.
C27_AdapterShutsDown ==
    /\ [][(shutdown_event /\ pva_pc \in {"wait_outputs", "run"})
             => pva_pc' \in {pva_pc, "stopped"}]_vars
    /\ [](pva_pc = "stopped" => (~context_open /\ pva_server # "started"))
    /\ (shutdown_event /\ pva_pc \in {"wait_outputs", "run", "flush"})
           ~> (pva_pc = "stopped")

\* the adapter was shut down while it served, and has stopped its server
C27_Witness ==
    /\ pva_pc = "stopped"
    /\ pva_server = "stopped"
    /\ ~pva_exit_event
    /\ ~context_open

\* C28: whenever the dispatcher has set the running flag it eventually resets
\* it, whatever path the handling of the batch takes.  Stated for a dispatcher
\* that stays alive: a batch whose handling ends in the except Full branch
\* (lines 252-253) already leaves the flag set, and so does a batch whose
\* evaluation raises, which ends the thread before line 247.
C28_RunningFlagIsReset ==
    running_indicator ~> (~running_indicator \/ comm_pc = "crashed")

\* C29: when the put of a cycle's outputs finds one protocol's outbound queue
\* full, every other protocol that has descriptors has either received the
\* outputs of that cycle already or is still to be served by the broadcast.
C29_FullDoesNotBlockOthers ==
    [][(comm_pc = "broadcast" /\ ~cycle.full /\ cycle'.full) =>
          \A q \in ProtocolNames \ {Head(bcast)} :
              epics_config[q] # {} =>
                  \/ q \in cycle'.enqueued
                  \/ \E i \in 1 .. Len(bcast') : bcast'[i] = q]_vars
====
